---- MODULE Spec2Model ----
(***************************************************************************)
(* GitGrade analysis pipeline.                                             *)
(*                                                                         *)
(* The model follows the live-host variant of the analysis flow            *)
(* (fetchRepositoryContent tool, analyzeRepositoryFlow, runFullAnalysis),  *)
(* the three generation flows it runs in parallel (score, summary,         *)
(* roadmap) and the server action analyzeRepository that wraps it.         *)
(*                                                                         *)
(* The repository host (octokit) and the generation service (genkit        *)
(* prompts) are external: every answer they can give is a                  *)
(* nondeterministic input of the action that receives it.                  *)
(***************************************************************************)
EXTENDS Integers, Sequences, FiniteSets, TLC

\* ------------------------------------------------------------------------
\* Bounds of the model.
\* ------------------------------------------------------------------------
NumReqs == 2        \* concurrent invocations of analyzeRepository
MaxToolCalls == 2   \* tool requests the generation service makes per analysis
MaxEffects == 3     \* runs of the effect of the analysis page (mount, URL changes)

Reqs == 1..NumReqs

\* ------------------------------------------------------------------------
\* URLs.  A URL is the sequence of its "/"-separated non-empty parts, the
\* scheme first; a string with no scheme is not a URL.
\* ------------------------------------------------------------------------
UrlA1 == <<"https:", "github.com", "octo", "repo">>
UrlA2 == <<"https:", "github.com", "octo", "repo", "tree">>
UrlOther == <<"https:", "example.com", "octo", "repo">>
UrlShort == <<"https:", "github.com", "octo">>
NotUrl == <<"octo", "repo">>

InputUrls == {UrlA1, UrlA2, UrlOther, NotUrl}
ToolUrls == {UrlA1, UrlA2, UrlOther, UrlShort}
AllUrls == InputUrls \cup ToolUrls

Schemes == {"https:", "http:"}

\* z.string().url()
IsUrl(u) == Len(u) >= 2 /\ u[1] \in Schemes

\* (variant: the input is not parsed)
ValidInputAlways(u) == u = u

\* AnalyzeRepositoryInputSchema.safeParse(input).success
ValidInput(u) == IsUrl(u)

\* repoUrl.match(/github\.com\/([^/]+\/[^/]+)/): the places where "github.com"
\* is followed by two more parts.
MatchPositions(u) == {i \in 1..Len(u) : u[i] = "github.com" /\ i + 2 <= Len(u)}

\* (variant: the pattern is not tested)
urlMatchAny(u) == u = u

urlMatch(u) == MatchPositions(u) # {}

FirstMatch(u) == CHOOSE i \in MatchPositions(u) : \A j \in MatchPositions(u) : i <= j

\* const [owner, repo] = urlMatch[1].split('/')
OwnerRepo(u) == <<u[FirstMatch(u) + 1], u[FirstMatch(u) + 2]>>

\* ------------------------------------------------------------------------
\* Content snapshots and the repository host.
\* ------------------------------------------------------------------------
Absent == "undefined"
Fields == {"readme", "packageJson", "fileTree"}

\* What one host call can answer: it throws because the file or repository
\* is not there ("throws") or because the host itself cannot be reached
\* ("unavailable"), or it returns data that has or has not the part the code
\* reads ('content' in data, default_branch, treeData.tree).
HostOutcomes == {"throws", "unavailable", "without", "with"}

\* the await of the host call throws
Thrown(outcome) == outcome \in {"throws", "unavailable"}

\* (variant: a sub-fetch that throws is not caught and ends the run)
AfterSubFetchUncaught(outcome, next) == IF Thrown(outcome) THEN "failed" ELSE next

\* Where a run goes after a sub-fetch: each is inside its own try/catch, so
\* the run goes on to the next statement whatever the host answered.
AfterSubFetch(outcome, next) == next

\* console.warn in the catch block of the sub-fetch for a field
Warn(warned, field, outcome) ==
  IF Thrown(outcome) THEN warned \cup {field} ELSE warned

NoOutcome == "none"
NoSub == [readme |-> NoOutcome, packageJson |-> NoOutcome,
          repo |-> NoOutcome, tree |-> NoOutcome]

\* data.content as the host sends it, per file
Base64Of(field) == IF field = "readme" THEN "UkVBRE1F" ELSE "cGFja2FnZQ=="

\* Buffer.from(content, 'base64').toString('utf-8')
fromBase64(content) ==
  CASE content = "UkVBRE1F" -> "README"
    [] content = "cGFja2FnZQ==" -> "package"
    [] OTHER -> ""

\* treeData.tree.map(file => file.path).join('\n')
JoinedPaths == "README.md\nsrc"

\* (variant: the 'content' in data test is left out)
ContentOfUnchecked(field, outcome) ==
  IF outcome # "throws" THEN fromBase64(Base64Of(field)) ELSE Absent

\* the value a local gets from the answer to its host call
ContentOf(field, outcome) ==
  IF outcome = "with" THEN fromBase64(Base64Of(field)) ELSE Absent

TreeOf(outcome) == IF outcome = "with" THEN JoinedPaths ELSE Absent

NoSnapshot == [readme |-> "none", packageJson |-> "none", fileTree |-> "none"]
EmptyLocals == [readme |-> Absent, packageJson |-> Absent, fileTree |-> Absent]

\* (variant: the cache is never consulted, every run goes to the host)
CacheHasNever(c, u) == c[u] # c[u]

\* (variant: an entry with an undefined field does not count as a hit)
CacheHasPopulated(c, u) ==
  c[u] # NoSnapshot /\ \A f \in Fields : c[u][f] # Absent

\* repoContentCache.has(repoUrl)
CacheHas(c, u) == c[u] # NoSnapshot

\* (variant: a cache hit returns an empty snapshot, not the stored one)
CacheGetEmpty(c, u) == EmptyLocals

\* repoContentCache.get(repoUrl)
CacheGet(c, u) == c[u]

\* (variant: the entry is written with the locals as they are declared,
\* before the sub-fetches fill them)
CacheSetEarly(c, u, result) == [c EXCEPT ![u] = EmptyLocals]

\* repoContentCache.set(repoUrl, result)
CacheSet(c, u, result) == [c EXCEPT ![u] = result]

\* ------------------------------------------------------------------------
\* Error messages.
\* ------------------------------------------------------------------------
NoErr == "no error"
MsgInvalidInput == "Invalid input"
MsgInvalidUrl == "Invalid GitHub URL format."
MsgNoOutput == "Failed to get analysis from AI"
MsgUnexpected == "The AI returned data in an unexpected format."
MsgGeneric == "Failed to generate repository analysis. The AI service may be temporarily unavailable."
\* raised by the flow runtime when a value does not parse against a schema
MsgSchema == "Schema validation failed"
\* raised by the generation service itself, with or without a message
MsgService == "generation service error"
MsgEmpty == ""

\* (variant: no fallback for an empty message)
EntryCatchNoFallback(msg) == msg

\* (variant: the catch block throws the generic message whatever it caught)
EntryCatchAlwaysGeneric(msg) == MsgGeneric

\* const message = error.message || '<generic>'; throw new Error(message)
EntryCatch(msg) == IF msg # MsgEmpty THEN msg ELSE MsgGeneric

\* ------------------------------------------------------------------------
\* Schemas.
\* ------------------------------------------------------------------------
Dims == {"codeQuality", "projectStructure", "documentation", "testCoverage",
         "realWorldRelevance", "commitConsistency"}

ScoreMin == 0
ScoreMax == 100

\* (variant: plain z.number() fields, no .min(0).max(100))
ValidDimensionScoresNoRange(s) == Dims \subseteq DOMAIN s

\* (variant: every field optional)
ValidDimensionScoresOptional(s) ==
  \A d \in Dims \cap DOMAIN s : s[d] >= ScoreMin /\ s[d] <= ScoreMax

\* AnalysisResultSchema: six numbers, each z.number().min(0).max(100)
ValidDimensionScores(s) ==
  /\ Dims \subseteq DOMAIN s
  /\ \A d \in Dims : s[d] >= ScoreMin /\ s[d] <= ScoreMax

SkillLevels == {"Beginner", "Intermediate", "Advanced"}
Badges == {"Bronze", "Silver", "Gold"}
Priorities == {"High", "Medium", "Low"}

\* GenerateRepositoryScoreOutputSchema: numericalScore z.number(), two enums
ValidScoreOutput(v) ==
  /\ {"numericalScore", "skillLevel", "badge"} \subseteq DOMAIN v
  /\ v.numericalScore \in Int
  /\ v.skillLevel \in SkillLevels
  /\ v.badge \in Badges

\* GenerateRepositorySummaryOutputSchema: { summary: z.string() }
ValidSummaryOutput(v) == "summary" \in DOMAIN v

\* RoadmapStepSchema
ValidRoadmapStep(s) ==
  /\ {"step", "priority", "effortEstimate"} \subseteq DOMAIN s
  /\ s.priority \in Priorities

\* GeneratePersonalizedRoadmapOutputSchema: { roadmap: z.array(RoadmapStepSchema) }
ValidRoadmapOutput(v) ==
  /\ "roadmap" \in DOMAIN v
  /\ \A i \in 1..Len(v.roadmap) : ValidRoadmapStep(v.roadmap[i])

\* ------------------------------------------------------------------------
\* What the generation service can answer to a prompt: it throws (with or
\* without a message), it returns no output, or it returns an output, which
\* conforms to the prompt's schema or does not.
\* ------------------------------------------------------------------------
Throws(m) == [kind |-> "throws", msg |-> m]
NullOutput == [kind |-> "null"]
Output(v) == [kind |-> "output", val |-> v]

ServiceFailures == {Throws(MsgService), NullOutput}

ScoresExample ==
  [codeQuality |-> 90, projectStructure |-> 80, documentation |-> 70,
   testCoverage |-> 60, realWorldRelevance |-> 50, commitConsistency |-> 75]
ScoresAll60 == [d \in Dims |-> 60]
ScoresTooHigh == [ScoresAll60 EXCEPT !["codeQuality"] = 101]
ScoresPartial == [d \in Dims \ {"commitConsistency"} |-> 60]

DimensionOutputs == {ScoresExample, ScoresAll60, ScoresTooHigh, ScoresPartial}

Verdict(n, s, b) == [numericalScore |-> n, skillLevel |-> s, badge |-> b]

ScoreOutputs ==
  {Verdict(75, "Intermediate", "Gold"), Verdict(60, "Intermediate", "Silver"),
   Verdict(150, "Beginner", "Gold"), Verdict(75, "Expert", "Gold")}

SummaryOutputs == {[summary |-> "Solid structure, few tests."], [text |-> "n/a"]}

RoadmapStep(p) == [step |-> "Add tests", priority |-> p, effortEstimate |-> "2 days"]
StepList(n) == [i \in 1..n |-> RoadmapStep("High")]

RoadmapOutputs ==
  {[roadmap |-> StepList(0)], [roadmap |-> StepList(3)], [roadmap |-> StepList(6)],
   [roadmap |-> <<RoadmapStep("High"), RoadmapStep("Urgent"), RoadmapStep("Low")>>], [steps |-> StepList(3)]}

AnalysisAnswers ==
  ServiceFailures \cup {Throws(MsgEmpty)} \cup {Output(v) : v \in DimensionOutputs}
ScoreAnswers == ServiceFailures \cup {Output(v) : v \in ScoreOutputs}
SummaryAnswers == ServiceFailures \cup {Output(v) : v \in SummaryOutputs}
RoadmapAnswers == ServiceFailures \cup {Output(v) : v \in RoadmapOutputs}

\* ------------------------------------------------------------------------
\* State.
\* ------------------------------------------------------------------------
VARIABLES
  pc,           \* where each invocation of analyzeRepository stands
  url,          \* its input repoUrl
  nAnalysis,    \* analysisPrompt calls it has issued
  nTool,        \* fetchRepositoryContent runs the service has requested in it
  tk,           \* the tool run in progress (or the last one): its repoUrl, its
                \* locals readme/packageJson/fileTree, the host's answers so
                \* far, the fields it has logged a warning for
  snap,         \* what the last tool run returned to the service
  cache,        \* repoContentCache
  analysisOut,  \* the raw answer to analysisPrompt
  analysis,     \* analysisResult
  gen,          \* the three promises handed to Promise.all
  rejected,     \* the messages of the promises that rejected, in order
  result,       \* the value analyzeRepository returned
  err,          \* the message of the error analyzeRepository threw
  page,         \* AnalysisClient: the url parameter it last saw, its result
                \* and error states, the runs of its effect so far
  transitions   \* the async callbacks its effect has started, by run

serverVars == <<pc, url, nAnalysis, nTool, tk, snap, cache, analysisOut, analysis,
                gen, rejected, result, err>>
clientVars == <<page, transitions>>

vars == <<pc, url, nAnalysis, nTool, tk, snap, cache, analysisOut, analysis,
          gen, rejected, result, err, page, transitions>>

NoUrl == <<>>
NoTool == [u |-> NoUrl, loc |-> EmptyLocals, sub |-> NoSub, warn |-> {}]
NoAnswer == [kind |-> "none"]
NoScores == [d \in {} |-> 0]
NotIssued == [kind |-> "notIssued"]
Pending == [kind |-> "pending"]
Discarded == [kind |-> "discarded"]
Rejected(m) == [kind |-> "rejected", msg |-> m]
NoGen == [score |-> NotIssued, summary |-> NotIssued, roadmap |-> NotIssued]
NoResult == [kind |-> "none"]

ToolPcs == {"getReadme", "getContent", "reposGet", "getTree"}

Effects == 1..MaxEffects
NotMounted == <<"not mounted">>
NoTransition == [url |-> NoUrl, at |-> "none"]

Init ==
  /\ page = [repoUrl |-> NotMounted, result |-> NoResult, error |-> NoErr,
             effects |-> 0]
  /\ transitions = [i \in Effects |-> NoTransition]
  /\ pc = [r \in Reqs |-> "idle"]
  /\ url = [r \in Reqs |-> NoUrl]
  /\ nAnalysis = [r \in Reqs |-> 0]
  /\ nTool = [r \in Reqs |-> 0]
  /\ tk = [r \in Reqs |-> NoTool]
  /\ snap = [r \in Reqs |-> NoSnapshot]
  /\ cache = [u \in ToolUrls |-> NoSnapshot]
  /\ analysisOut = [r \in Reqs |-> NoAnswer]
  /\ analysis = [r \in Reqs |-> NoScores]
  /\ gen = [r \in Reqs |-> NoGen]
  /\ rejected = [r \in Reqs |-> <<>>]
  /\ result = [r \in Reqs |-> NoResult]
  /\ err = [r \in Reqs |-> NoErr]

\* ------------------------------------------------------------------------
\* The server action and the analysis flow.
\* ------------------------------------------------------------------------

\* (variant: the prompt does not wait for its tool run)
AwaitingPromptOrTool(r) == pc[r] \in {"analyzing"} \cup ToolPcs

\* analysisPrompt is in flight and no tool run of it is.
AwaitingPrompt(r) == pc[r] = "analyzing"

\* analyzeRepository(input), up to its first await: the input is parsed; an
\* invalid one throws before the try block, a valid one enters the flow,
\* which issues analysisPrompt({ repoUrl }).
analyzeRepository(r, u) ==
  /\ pc[r] = "idle"
  /\ url' = [url EXCEPT ![r] = u]
  /\ IF ValidInput(u)
       THEN /\ pc' = [pc EXCEPT ![r] = "analyzing"]
            /\ nAnalysis' = [nAnalysis EXCEPT ![r] = @ + 1]
            /\ err' = err
       ELSE /\ pc' = [pc EXCEPT ![r] = "failed"]
            /\ err' = [err EXCEPT ![r] = MsgInvalidInput]
            /\ nAnalysis' = nAnalysis
  /\ UNCHANGED <<nTool, tk, snap, cache, analysisOut, analysis, gen, rejected, result>>

\* The service asks for a run of the fetchRepositoryContent tool, with the
\* repoUrl it chooses.  The run goes on to its first await: a cached entry is
\* returned at once; a URL that does not match throws, which ends the prompt,
\* the flow and the action; otherwise getReadme is called.
fetchRepositoryContent(r, u) ==
  /\ AwaitingPrompt(r)
  /\ nTool[r] < MaxToolCalls
  /\ nTool' = [nTool EXCEPT ![r] = @ + 1]
  /\ tk' = [tk EXCEPT ![r] = [u |-> u, loc |-> EmptyLocals, sub |-> NoSub,
                              warn |-> {}]]
  /\ IF CacheHas(cache, u)
       THEN /\ snap' = [snap EXCEPT ![r] = CacheGet(cache, u)]
            /\ UNCHANGED <<pc, err>>
       ELSE IF ~urlMatch(u)
         THEN /\ pc' = [pc EXCEPT ![r] = "failed"]
              /\ err' = [err EXCEPT ![r] = EntryCatch(MsgInvalidUrl)]
              /\ snap' = snap
         ELSE /\ pc' = [pc EXCEPT ![r] = "getReadme"]
              /\ UNCHANGED <<snap, err>>
  /\ UNCHANGED <<url, nAnalysis, cache, analysisOut, analysis, gen, rejected, result>>

\* octokit.rest.repos.getReadme answers; getContent is called next.
getReadmeReturns(r, o) ==
  /\ pc[r] = "getReadme"
  /\ tk' = [tk EXCEPT ![r].loc.readme = ContentOf("readme", o),
                      ![r].sub.readme = o,
                      ![r].warn = Warn(@, "readme", o)]
  /\ pc' = [pc EXCEPT ![r] = AfterSubFetch(o, "getContent")]
  /\ UNCHANGED <<url, nAnalysis, nTool, snap, cache, analysisOut, analysis, gen,
                 rejected, result, err>>

\* octokit.rest.repos.getContent answers; repos.get is called next.
getContentReturns(r, o) ==
  /\ pc[r] = "getContent"
  /\ tk' = [tk EXCEPT ![r].loc.packageJson = ContentOf("packageJson", o),
                      ![r].sub.packageJson = o,
                      ![r].warn = Warn(@, "packageJson", o)]
  /\ pc' = [pc EXCEPT ![r] = AfterSubFetch(o, "reposGet")]
  /\ UNCHANGED <<url, nAnalysis, nTool, snap, cache, analysisOut, analysis, gen,
                 rejected, result, err>>

\* octokit.rest.repos.get answers: with a default branch getTree is called;
\* otherwise the run ends with fileTree undefined, stores and returns its result.
reposGetReturns(r, o) ==
  /\ pc[r] = "reposGet"
  /\ tk' = [tk EXCEPT ![r].sub.repo = o, ![r].warn = Warn(@, "fileTree", o)]
  /\ IF o = "with"
       THEN /\ pc' = [pc EXCEPT ![r] = "getTree"]
            /\ UNCHANGED <<cache, snap>>
       ELSE /\ pc' = [pc EXCEPT ![r] = AfterSubFetch(o, "analyzing")]
            /\ cache' = CacheSet(cache, tk[r].u, tk[r].loc)
            /\ snap' = [snap EXCEPT ![r] = tk[r].loc]
  /\ UNCHANGED <<url, nAnalysis, nTool, analysisOut, analysis, gen, rejected,
                 result, err>>

\* octokit.rest.git.getTree answers; the run stores and returns its result.
getTreeReturns(r, o) ==
  /\ pc[r] = "getTree"
  /\ LET loc == [tk[r].loc EXCEPT !.fileTree = TreeOf(o)]
     IN /\ tk' = [tk EXCEPT ![r].loc = loc, ![r].sub.tree = o,
                            ![r].warn = Warn(@, "fileTree", o)]
        /\ cache' = CacheSet(cache, tk[r].u, loc)
        /\ snap' = [snap EXCEPT ![r] = loc]
  /\ pc' = [pc EXCEPT ![r] = AfterSubFetch(o, "analyzing")]
  /\ UNCHANGED <<url, nAnalysis, nTool, analysisOut, analysis, gen, rejected,
                 result, err>>

\* (variant: the flow declares no outputSchema)
analyzeRepositoryFlowUnchecked(a) ==
  CASE a.kind = "throws" -> a.msg
    [] a.kind = "null" -> MsgNoOutput
    [] OTHER -> NoErr

\* What analyzeRepositoryFlow makes of the answer to analysisPrompt: the
\* message it throws, or NoErr when it returns the output.
analyzeRepositoryFlow(a) ==
  CASE a.kind = "throws" -> a.msg
    [] a.kind = "null" -> MsgNoOutput
    [] a.kind = "output" /\ ~ValidDimensionScores(a.val) -> MsgSchema
    [] OTHER -> NoErr

\* (variant: the flows are awaited one after another, the score first)
IssueScoreOnly == [score |-> Pending, summary |-> NotIssued, roadmap |-> NotIssued]

\* (variant: the score is not asked of the generation service)
IssueWithoutScore == [score |-> NotIssued, summary |-> Pending, roadmap |-> Pending]

\* The three calls runFullAnalysis makes before it awaits Promise.all.
IssueAll == [score |-> Pending, summary |-> Pending, roadmap |-> Pending]

\* analysisPrompt answers.  A failure leaves runFullAnalysis and is caught by
\* the action; a valid output becomes analysisResult and the score, summary
\* and roadmap flows are called.  The prompt's tool runs are over: what they
\* held is gone with the prompt.
analysisPromptReturns(r, a) ==
  /\ AwaitingPrompt(r)
  /\ analysisOut' = [analysisOut EXCEPT ![r] = a]
  /\ IF analyzeRepositoryFlow(a) = NoErr
       THEN /\ analysis' = [analysis EXCEPT ![r] = a.val]
            /\ gen' = [gen EXCEPT ![r] = IssueAll]
            /\ pc' = [pc EXCEPT ![r] = "generating"]
            /\ err' = err
       ELSE /\ pc' = [pc EXCEPT ![r] = "failed"]
            /\ err' = [err EXCEPT ![r] = EntryCatch(analyzeRepositoryFlow(a))]
            /\ UNCHANGED <<analysis, gen>>
  /\ nTool' = [nTool EXCEPT ![r] = 0]
  /\ tk' = [tk EXCEPT ![r] = NoTool]
  /\ snap' = [snap EXCEPT ![r] = NoSnapshot]
  /\ UNCHANGED <<url, nAnalysis, cache, rejected, result>>

\* ------------------------------------------------------------------------
\* The three generation flows and Promise.all.
\* ------------------------------------------------------------------------

\* What a flow whose body is "const {output} = await prompt(input); return
\* output!" makes of the prompt's answer, given its outputSchema: the message
\* it throws, or NoErr when it returns the output.
FlowError(a, valid) ==
  CASE a.kind = "throws" -> a.msg
    [] a.kind = "null" -> MsgSchema
    [] a.kind = "output" /\ ~valid -> MsgSchema
    [] OTHER -> NoErr

generateRepositoryScoreFlow(a) ==
  FlowError(a, a.kind = "output" /\ ValidScoreOutput(a.val))

generateRepositorySummaryFlow(a) ==
  FlowError(a, a.kind = "output" /\ ValidSummaryOutput(a.val))

generatePersonalizedRoadmapFlow(a) ==
  FlowError(a, a.kind = "output" /\ ValidRoadmapOutput(a.val))

\* (variant: the reason of the latest rejection)
LatestRejection(log) == log[Len(log)]

\* Promise.all rejects with the reason of the first promise that rejects;
\* later rejections are ignored.
PromiseAllRejection(log) == log[1]

\* Promise.all fulfils once every promise has.
PromiseAllFulfilled(g) ==
  g.score.kind = "output" /\ g.summary.kind = "output" /\ g.roadmap.kind = "output"

\* (variant: repoUrl is rebuilt from the host, owner and name of the input)
FullResultCanonicalUrl(g, u, scores) ==
  [score |-> g.score.val, summary |-> g.summary.val, roadmap |-> g.roadmap.val,
   repoUrl |-> SubSeq(u, 1, 4), analysis |-> scores]

\* return { score, summary, roadmap, repoUrl: input.repoUrl, analysis: analysisResult }
FullResult(g, u, scores) ==
  [score |-> g.score.val, summary |-> g.summary.val, roadmap |-> g.roadmap.val,
   repoUrl |-> u, analysis |-> scores]

\* AnalyzeRepositoryOutputSchema of the action: the five parts, the six
\* analysis fields plain numbers
ValidOutput(res) ==
  /\ {"analysis", "score", "summary", "roadmap", "repoUrl"} \subseteq DOMAIN res
  /\ Dims \subseteq DOMAIN res.analysis
  /\ \A d \in Dims : res.analysis[d] \in Int
  /\ ValidScoreOutput(res.score)
  /\ "summary" \in DOMAIN res.summary
  /\ "roadmap" \in DOMAIN res.roadmap
  /\ \A i \in 1..Len(res.roadmap.roadmap) :
        /\ {"step", "priority", "effortEstimate"} \subseteq DOMAIN res.roadmap.roadmap[i]
        /\ res.roadmap.roadmap[i].priority \in Priorities
  /\ IsUrl(res.repoUrl)

\* The promises once runFullAnalysis has thrown: the values of those that
\* fulfilled are unreachable.
Dropped(g) == [k \in DOMAIN g |-> IF g[k].kind = "output" THEN Discarded ELSE g[k]]

\* One of the three flows settles with the message e (NoErr: it returns the
\* output of answer a).  While runFullAnalysis awaits Promise.all, a
\* rejection ends it at once and is caught by the action; the last
\* fulfilment lets it build the result, which the action parses and returns.
\* Once Promise.all has rejected, what the other flows settle with is dropped.
Settle(r, k, a, e) ==
  /\ gen[r][k] = Pending
  /\ IF e = NoErr
       THEN /\ rejected' = rejected
            /\ IF pc[r] = "generating"
                 THEN LET g == [gen[r] EXCEPT ![k] = a]
                          res == FullResult(g, url[r], analysis[r])
                      IN /\ gen' = [gen EXCEPT ![r] = g]
                         /\ IF ~PromiseAllFulfilled(g)
                              THEN UNCHANGED <<pc, result, err>>
                              ELSE IF ValidOutput(res)
                                THEN /\ pc' = [pc EXCEPT ![r] = "done"]
                                     /\ result' = [result EXCEPT ![r] = res]
                                     /\ err' = err
                                ELSE /\ pc' = [pc EXCEPT ![r] = "failed"]
                                     /\ err' = [err EXCEPT ![r] = EntryCatch(MsgUnexpected)]
                                     /\ result' = result
                 ELSE /\ gen' = [gen EXCEPT ![r][k] = Discarded]
                      /\ UNCHANGED <<pc, result, err>>
       ELSE /\ rejected' = [rejected EXCEPT ![r] = Append(@, e)]
            /\ gen' = [gen EXCEPT ![r] = Dropped([gen[r] EXCEPT ![k] = Rejected(e)])]
            /\ pc' = [pc EXCEPT ![r] = "failed"]
            /\ err' = [err EXCEPT ![r] = EntryCatch(PromiseAllRejection(rejected'[r]))]
            /\ result' = result
  /\ UNCHANGED <<url, nAnalysis, nTool, tk, snap, cache, analysisOut, analysis>>

generateRepositoryScoreReturns(r, a) ==
  Settle(r, "score", a, generateRepositoryScoreFlow(a))

generateRepositorySummaryReturns(r, a) ==
  Settle(r, "summary", a, generateRepositorySummaryFlow(a))

generatePersonalizedRoadmapReturns(r, a) ==
  Settle(r, "roadmap", a, generatePersonalizedRoadmapFlow(a))

\* The caller has its answer and the invocation's values are unreachable;
\* the slot is free for the next invocation.  Only repoContentCache lives on.
invocationEnds(r) ==
  /\ pc[r] \in {"done", "failed"}
  /\ pc' = [pc EXCEPT ![r] = "idle"]
  /\ url' = [url EXCEPT ![r] = NoUrl]
  /\ nAnalysis' = [nAnalysis EXCEPT ![r] = 0]
  /\ analysisOut' = [analysisOut EXCEPT ![r] = NoAnswer]
  /\ analysis' = [analysis EXCEPT ![r] = NoScores]
  /\ gen' = [gen EXCEPT ![r] = NoGen]
  /\ rejected' = [rejected EXCEPT ![r] = <<>>]
  /\ result' = [result EXCEPT ![r] = NoResult]
  /\ err' = [err EXCEPT ![r] = NoErr]
  /\ nTool' = [nTool EXCEPT ![r] = 0]
  /\ tk' = [tk EXCEPT ![r] = NoTool]
  /\ snap' = [snap EXCEPT ![r] = NoSnapshot]
  /\ cache' = cache

\* ------------------------------------------------------------------------
\* Specifications.
\* ------------------------------------------------------------------------
Step(r) ==
  \/ \E u \in InputUrls : analyzeRepository(r, u)
  \/ \E u \in ToolUrls : fetchRepositoryContent(r, u)
  \/ \E o \in HostOutcomes : getReadmeReturns(r, o)
  \/ \E o \in HostOutcomes : getContentReturns(r, o)
  \/ \E o \in HostOutcomes : reposGetReturns(r, o)
  \/ \E o \in HostOutcomes : getTreeReturns(r, o)
  \/ \E a \in AnalysisAnswers : analysisPromptReturns(r, a)
  \/ \E a \in ScoreAnswers : generateRepositoryScoreReturns(r, a)
  \/ \E a \in SummaryAnswers : generateRepositorySummaryReturns(r, a)
  \/ \E a \in RoadmapAnswers : generatePersonalizedRoadmapReturns(r, a)
  \/ invocationEnds(r)

\* Invocations of the action one after another, any number of them, in one
\* server process: an invocation starts when no other is under way.
OneAtATime(r) == \A q \in Reqs \ {r} : pc[q] = "idle"

Next == (\E r \in Reqs : OneAtATime(r) /\ Step(r)) /\ UNCHANGED clientVars

Spec == Init /\ [][Next]_vars

\* Invocations that overlap: the server serves several requests at a time,
\* and the handlers of one run between the awaits of another.  The inputs
\* are narrowed to what the entry of one key of the shared cache can tell
\* apart: one repository URL, a host call that throws or returns its data, a
\* service that answers.
OverlapInputUrls == {UrlA1}
OverlapToolUrls == {UrlA1}
OverlapHostOutcomes == {"throws", "with"}
OverlapAnalysisAnswers == {Output(ScoresAll60)}
OverlapScoreAnswers == {Output(Verdict(60, "Intermediate", "Silver"))}
OverlapSummaryAnswers == {Output([summary |-> "Solid structure, few tests."])}
OverlapRoadmapAnswers == {Output([roadmap |-> StepList(3)])}

StepOverlap(r) ==
  \/ \E u \in OverlapInputUrls : analyzeRepository(r, u)
  \/ \E u \in OverlapToolUrls : fetchRepositoryContent(r, u)
  \/ \E o \in OverlapHostOutcomes : getReadmeReturns(r, o)
  \/ \E o \in OverlapHostOutcomes : getContentReturns(r, o)
  \/ \E o \in OverlapHostOutcomes : reposGetReturns(r, o)
  \/ \E o \in OverlapHostOutcomes : getTreeReturns(r, o)
  \/ \E a \in OverlapAnalysisAnswers : analysisPromptReturns(r, a)
  \/ \E a \in OverlapScoreAnswers : generateRepositoryScoreReturns(r, a)
  \/ \E a \in OverlapSummaryAnswers : generateRepositorySummaryReturns(r, a)
  \/ \E a \in OverlapRoadmapAnswers : generatePersonalizedRoadmapReturns(r, a)
  \/ invocationEnds(r)

NextOverlap == (\E r \in Reqs : StepOverlap(r)) /\ UNCHANGED clientVars

SpecOverlap == Init /\ [][NextOverlap]_vars

\* The score step on its own: requests that overlap, whose analysis returns
\* one of two sets of scores without a fetch, so that the score flow is
\* called several times with the same input and with different ones.
ScoreStepInputs == {ScoresAll60, ScoresExample}

StepScore(r) ==
  \/ analyzeRepository(r, UrlA1)
  \/ \E v \in ScoreStepInputs : analysisPromptReturns(r, Output(v))
  \/ \E a \in ScoreAnswers : generateRepositoryScoreReturns(r, a)
  \/ \E a \in OverlapSummaryAnswers : generateRepositorySummaryReturns(r, a)
  \/ \E a \in OverlapRoadmapAnswers : generatePersonalizedRoadmapReturns(r, a)
  \/ invocationEnds(r)

NextScore == (\E r \in Reqs : StepScore(r)) /\ UNCHANGED clientVars

SpecScore == Init /\ [][NextScore]_vars

\* ------------------------------------------------------------------------
\* The analysis page (AnalysisClient).  The server action is seen from the
\* browser: a call returns a result that carries the repoUrl it was given,
\* or throws an error with or without a message.
\* ------------------------------------------------------------------------
PageUrls == {UrlA1, UrlA2, NoUrl}

MsgNoUrl == "No repository URL provided. Please go back and enter a URL."
MsgClientFallback == "An unexpected error occurred."

ResultFor(u) == [kind |-> "result", repoUrl |-> u]
ActionAnswers(u) == {Output(ResultFor(u)), Throws(MsgService), Throws(MsgEmpty)}

\* setError(e.message || 'An unexpected error occurred.')
ClientCatch(msg) == IF msg # MsgEmpty THEN msg ELSE MsgClientFallback

\* The effect runs, on mount and whenever the url parameter has changed:
\* without a URL it sets the error; with one it starts a transition, whose
\* callback clears the error and waits for the delay.  Nothing is done about
\* the transitions started before.
useEffect(u) ==
  /\ page.effects < MaxEffects
  /\ u # page.repoUrl
  /\ LET i == page.effects + 1
     IN IF u = NoUrl
          THEN /\ page' = [page EXCEPT !.repoUrl = u, !.effects = i,
                                       !.error = MsgNoUrl]
               /\ transitions' = transitions
          ELSE /\ page' = [page EXCEPT !.repoUrl = u, !.effects = i,
                                       !.error = NoErr]
               /\ transitions' = [transitions EXCEPT ![i] = [url |-> u, at |-> "delay"]]
  /\ UNCHANGED serverVars

\* The 2500 ms timer of a transition fires; analyzeRepository({ repoUrl }) is
\* called with the URL the effect ran for.
delayElapses(i) ==
  /\ transitions[i].at = "delay"
  /\ transitions' = [transitions EXCEPT ![i].at = "calling"]
  /\ UNCHANGED <<page, serverVars>>

\* The server action answers transition i: setResult(analysisData), or
\* setError in the catch block.
actionReturns(i, a) ==
  /\ transitions[i].at = "calling"
  /\ transitions' = [transitions EXCEPT ![i].at = "settled"]
  /\ IF a.kind = "output"
       THEN page' = [page EXCEPT !.result = a.val]
       ELSE page' = [page EXCEPT !.error = ClientCatch(a.msg)]
  /\ UNCHANGED serverVars

\* isPending: a transition is still running
isPending == \E i \in Effects : transitions[i].at \in {"delay", "calling"}

\* what the component renders
Rendered ==
  IF isPending THEN [kind |-> "loading"]
  ELSE IF page.error # NoErr THEN [kind |-> "error", msg |-> page.error]
  ELSE IF page.result = NoResult THEN [kind |-> "nothing"]
  ELSE page.result

NextClient ==
  \/ \E u \in PageUrls : useEffect(u)
  \/ \E i \in Effects : delayElapses(i)
  \/ \E i \in Effects : \E a \in ActionAnswers(transitions[i].url) : actionReturns(i, a)

SpecClient == Init /\ [][NextClient]_vars

\* Invocations one after another, where the runtime hands every settled
\* invocation back to its caller; nothing obliges the repository host or the
\* generation service to answer a call.
SpecLive ==
  Spec /\ \A r \in Reqs : WF_vars(invocationEnds(r) /\ UNCHANGED clientVars)

\* ------------------------------------------------------------------------
\* The orchestrator's state, read off the position of the invocation.
\* ------------------------------------------------------------------------
State(r) ==
  CASE pc[r] = "idle" -> "Idle"
    [] pc[r] = "analyzing" -> "AnalyzingDimensions"
    [] pc[r] \in ToolPcs -> "FetchingContent"
    [] pc[r] = "generating" -> "GeneratingOutputs"
    [] pc[r] = "done" -> "Assembled"
    [] pc[r] = "failed" -> "Failed"

Terminal == {"Assembled", "Failed"}

\* ------------------------------------------------------------------------
\* The rules the claims measure the code against.
\* ------------------------------------------------------------------------
InRange(s) == \A d \in Dims : d \in DOMAIN s /\ s[d] \in 0..100

SkillOf(n) == IF n <= 50 THEN "Beginner" ELSE IF n <= 80 THEN "Intermediate" ELSE "Advanced"
BadgeOf(n) == IF n <= 40 THEN "Bronze" ELSE IF n <= 70 THEN "Silver" ELSE "Gold"

\* 100 times the weighted sum
Weighted100(s) ==
  30 * s.codeQuality + 20 * s.projectStructure + 15 * s.documentation
    + 15 * s.testCoverage + 10 * s.realWorldRelevance + 10 * s.commitConsistency

\* round(x), halves up, then clamped to 0..100
Aggregate(s) ==
  LET n == (Weighted100(s) + 50) \div 100
  IN IF n < 0 THEN 0 ELSE IF n > 100 THEN 100 ELSE n

\* the score flow of request r has returned
ScoreReturned(r) == gen[r].score.kind = "output"

\* C1: whenever the score step has returned for DimensionScores in 0..100,
\* its numericalScore is in 0..100 and its skillLevel and badge are the ones
\* the threshold table gives that numericalScore.
C1_ScoreFollowsThresholdTable ==
  \A r \in Reqs :
    (ScoreReturned(r) /\ InRange(analysis[r])) =>
      LET v == gen[r].score.val
      IN /\ v.numericalScore \in 0..100
         /\ v.skillLevel = SkillOf(v.numericalScore)
         /\ v.badge = BadgeOf(v.numericalScore)

\* C2: whenever the score step has returned, its numericalScore is the rounded,
\* clamped weighted sum of the six scores it was given; for (90, 80, 70, 60,
\* 50, 75) it returns 75, Intermediate, Gold.
C2_ScoreIsWeightedSum ==
  \A r \in Reqs :
    ScoreReturned(r) =>
      /\ gen[r].score.val.numericalScore = Aggregate(analysis[r])
      /\ analysis[r] = ScoresExample =>
           gen[r].score.val = Verdict(75, "Intermediate", "Gold")

\* a tool run of request r has gone through its host calls and returned
RunReturned(r) == pc[r] = "analyzing" /\ tk[r].sub.repo # NoOutcome

TreeThrew(r) == tk[r].sub.repo = "throws" \/ tk[r].sub.tree = "throws"
TreeGiven(r) == tk[r].sub.repo = "with" /\ tk[r].sub.tree = "with"

\* a tool run of request r has thrown
RunThrew(r) == pc[r] = "failed" /\ tk[r] # NoTool

RunStarts(r) == pc[r] = "analyzing" /\ nTool'[r] = nTool[r] + 1

\* the owner/name pair of u has a cache entry, under some URL
RefCached(u) ==
  \E k \in DOMAIN cache :
    /\ cache[k] # NoSnapshot
    /\ MatchPositions(k) # {} /\ MatchPositions(u) # {}
    /\ OwnerRepo(k) = OwnerRepo(u)

AnalysisOutputInvalid(r) ==
  analysisOut[r].kind = "output" /\ ~InRange(analysisOut[r].val)

LinearEdges ==
  {<<"Idle", "FetchingContent">>, <<"FetchingContent", "AnalyzingDimensions">>,
   <<"AnalyzingDimensions", "GeneratingOutputs">>,
   <<"GeneratingOutputs", "Assembled">>}

\* the order the code follows: the analysis call is issued first and the
\* fetch runs inside it, any number of times
NestedEdges ==
  {<<"Idle", "AnalyzingDimensions">>, <<"AnalyzingDimensions", "FetchingContent">>,
   <<"FetchingContent", "AnalyzingDimensions">>,
   <<"AnalyzingDimensions", "GeneratingOutputs">>,
   <<"GeneratingOutputs", "Assembled">>}

FailureEdges == {<<s, "Failed">> : s \in {"Idle", "FetchingContent",
                                           "AnalyzingDimensions", "GeneratingOutputs"}}

\* a step of request r stays in its state or follows one of the edges; the
\* end of the invocation, after which the slot serves a new request, apart
StepsAlong(r, edges) ==
  \/ State(r)' = State(r)
  \/ <<State(r), State(r)'>> \in edges \cup FailureEdges
  \/ State(r) \in Terminal /\ invocationEnds(r)

C7_RangeGuardsGeneration ==
  \A r \in Reqs :
    /\ gen[r] # NoGen =>
         (analysisOut[r].kind = "output" /\ InRange(analysisOut[r].val)
            /\ analysis[r] = analysisOut[r].val)
    /\ State(r) \in {"GeneratingOutputs", "Assembled"} => InRange(analysis[r])
    /\ AnalysisOutputInvalid(r) =>
         /\ State(r) = "Failed" /\ err[r] = MsgSchema
         /\ gen[r].summary = NotIssued /\ gen[r].roadmap = NotIssued

\* an analysis output with a score of 101 has ended a request
C7_Witness ==
  \E r \in Reqs :
    /\ analysisOut[r] = Output(ScoresTooHigh)
    /\ State(r) = "Failed" /\ gen[r] = NoGen

\* the message the caller gets for a failure with message m
Reported(m) == IF m = "" THEN MsgGeneric ELSE m

WellFormedStep(st) ==
  /\ {"step", "priority", "effortEstimate"} \subseteq DOMAIN st
  /\ st.priority \in {"High", "Medium", "Low"}

\* C8: Assembled is reached only with a summary and a roadmap that both
\* conform; a summary or roadmap call that fails or does not conform ends the
\* request in Failed; the error reported is the first one encountered.
C8_FirstErrorReported ==
  \A r \in Reqs :
    /\ State(r) = "Assembled" =>
         /\ gen[r].summary.kind = "output" /\ "summary" \in DOMAIN gen[r].summary.val
         /\ gen[r].roadmap.kind = "output" /\ "roadmap" \in DOMAIN gen[r].roadmap.val
         /\ \A i \in 1..Len(gen[r].roadmap.val.roadmap) :
               WellFormedStep(gen[r].roadmap.val.roadmap[i])
    /\ (gen[r].summary.kind = "rejected" \/ gen[r].roadmap.kind = "rejected") =>
         State(r) = "Failed"
    /\ rejected[r] # <<>> =>
         (State(r) = "Failed" /\ err[r] = Reported(rejected[r][1]))

\* two flows have failed, with different errors
C8_Witness ==
  \E r \in Reqs :
    /\ State(r) = "Failed" /\ Len(rejected[r]) >= 2
    /\ rejected[r][1] # rejected[r][2]
    /\ gen[r].roadmap.kind = "rejected"

Completed(a) == a.kind \notin {"notIssued", "pending"}
Calls == {"score", "summary", "roadmap"}

\* C9 as stated: the three calls are started together, and GeneratingOutputs
\* is left, to Assembled or to Failed, only when all three have completed.
C9_LeftWhenAllCompleted ==
  \A r \in Reqs :
    /\ (\E k \in Calls : gen[r][k] # NotIssued) => \A k \in Calls : gen[r][k] # NotIssued
    /\ (State(r) \in Terminal /\ gen[r] # NoGen) => \A k \in Calls : Completed(gen[r][k])

\* C9 amended: the three calls are started together; GeneratingOutputs is
\* left to Assembled only when all three have returned, and to Failed as soon
\* as one of them has failed, the others completed or not.
C9_FailedAtFirstFailure ==
  \A r \in Reqs :
    /\ (\E k \in Calls : gen[r][k] # NotIssued) => \A k \in Calls : gen[r][k] # NotIssued
    /\ State(r) = "Assembled" => \A k \in Calls : gen[r][k].kind = "output"
    /\ (State(r) = "Failed" /\ gen[r] # NoGen) => \E k \in Calls : gen[r][k].kind = "rejected"
    /\ (\E k \in Calls : gen[r][k].kind = "rejected") => State(r) = "Failed"
    /\ State(r) = "GeneratingOutputs" =>
         \A k \in Calls : gen[r][k].kind \in {"pending", "output"}

\* a request has failed while one of its calls is still in flight
C9_Witness ==
  \E r \in Reqs :
    /\ State(r) = "Failed"
    /\ \E k \in Calls : gen[r][k] = Pending
    /\ \E k \in Calls : gen[r][k].kind = "rejected"

\* every part of an AnalysisResult is there and conforms
CompleteResult(res) ==
  /\ DOMAIN res = {"repoUrl", "analysis", "score", "summary", "roadmap"}
  /\ Len(res.repoUrl) >= 2 /\ res.repoUrl[1] \in {"https:", "http:"}
  /\ InRange(res.analysis)
  /\ {"numericalScore", "skillLevel", "badge"} \subseteq DOMAIN res.score
  /\ res.score.numericalScore \in Int
  /\ res.score.skillLevel \in {"Beginner", "Intermediate", "Advanced"}
  /\ res.score.badge \in {"Bronze", "Silver", "Gold"}
  /\ "summary" \in DOMAIN res.summary
  /\ "roadmap" \in DOMAIN res.roadmap
  /\ \A i \in 1..Len(res.roadmap.roadmap) : WellFormedStep(res.roadmap.roadmap[i])

\* C10: an invocation that has ended has returned a complete, conforming
\* result and thrown nothing, or has thrown one error with a message and
\* returned nothing; no result exists before the end.
C10_AllOrNothing ==
  \A r \in Reqs :
    /\ State(r) = "Assembled" => (CompleteResult(result[r]) /\ err[r] = NoErr)
    /\ State(r) = "Failed" => (result[r] = NoResult /\ err[r] \notin {NoErr, ""})
    /\ State(r) \notin Terminal => (result[r] = NoResult /\ err[r] = NoErr)

\* an invocation has returned a result, which carries its input URL
C10_Witness ==
  \E r \in Reqs :
    /\ State(r) = "Assembled" /\ result[r] # NoResult
    /\ result[r].repoUrl = url[r]

\* C11: a request whose URL names no owner/name pair fails before any call
\* to the generation service or to the repository host.
C11_InvalidReferenceFailsFirst ==
  \A r \in Reqs :
    (url[r] # NoUrl /\ ~urlMatch(url[r])) =>
      /\ State(r) = "Failed"
      /\ nAnalysis[r] = 0 /\ nTool[r] = 0 /\ gen[r] = NoGen

\* C12: every result returned has a roadmap of 3 to 5 well-formed steps.
C12_RoadmapThreeToFive ==
  \A r \in Reqs :
    State(r) = "Assembled" =>
      /\ Len(result[r].roadmap.roadmap) \in 3..5
      /\ \A i \in 1..Len(result[r].roadmap.roadmap) :
            WellFormedStep(result[r].roadmap.roadmap[i])

\* C13: the analysis of every result returned has the six fields, each in
\* 0..100; the analyzer yields all six scores or fails as a whole: scores
\* with a field missing never become the analysis of a request.
C13_AnalysisCompleteInRange ==
  \A r \in Reqs :
    /\ State(r) = "Assembled" =>
         (result[r].analysis = analysis[r] /\ InRange(result[r].analysis))
    /\ analysis[r] # NoScores => InRange(analysis[r])
    /\ (analysisOut[r].kind = "output" /\ ~(Dims \subseteq DOMAIN analysisOut[r].val)) =>
         (State(r) = "Failed" /\ analysis[r] = NoScores /\ result[r] = NoResult)

\* a result has been returned whose analysis is the six scores the analyzer gave
C13_Witness ==
  \E r \in Reqs :
    /\ State(r) = "Assembled"
    /\ analysisOut[r] = Output(ScoresExample)
    /\ result[r].analysis = ScoresExample

\* C14: in every result returned, score.numericalScore is in 0..100 and is the
\* weighted aggregate of the analysis of the same result, and skillLevel and
\* badge are the buckets of that numericalScore.
C14_ResultScoreDerived ==
  \A r \in Reqs :
    State(r) = "Assembled" =>
      LET res == result[r]
      IN /\ res.score.numericalScore \in 0..100
         /\ res.score.numericalScore = Aggregate(res.analysis)
         /\ res.score.skillLevel = SkillOf(res.score.numericalScore)
         /\ res.score.badge = BadgeOf(res.score.numericalScore)

\* the host answered the sub-fetch for field f without the data the code reads
AnsweredWithout(t, f) ==
  CASE f = "readme" -> t.sub.readme = "without"
    [] f = "packageJson" -> t.sub.packageJson = "without"
    [] f = "fileTree" -> \/ t.sub.repo = "without"
                         \/ (t.sub.repo = "with" /\ t.sub.tree = "without")

\* the sub-fetch for field f threw
SubFetchThrew(t, f) ==
  CASE f = "readme" -> Thrown(t.sub.readme)
    [] f = "packageJson" -> Thrown(t.sub.packageJson)
    [] f = "fileTree" -> Thrown(t.sub.repo) \/ Thrown(t.sub.tree)

\* a step of request r out of FetchingContent stays there or goes back to the
\* analysis with the run's snapshot, and throws nothing
FetchGoesOn(r) ==
  /\ State(r)' \in {"FetchingContent", "AnalyzingDimensions"}
  /\ err'[r] = NoErr
  /\ State(r)' = "AnalyzingDimensions" =>
       (snap'[r] = tk'[r].loc /\ cache'[tk'[r].u] = tk'[r].loc)

\* C15 as stated: FetchingContent always leads to AnalyzingDimensions with
\* the snapshot; an absent field is no failure, and comes with a warning.
C15_AbsentFieldWarned ==
  [][\A r \in Reqs :
       State(r) = "FetchingContent" =>
         /\ FetchGoesOn(r)
         /\ State(r)' = "AnalyzingDimensions" =>
              \A f \in Fields : snap'[r][f] = Absent => f \in tk'[r].warn]_vars

\* C15 amended: FetchingContent always leads to AnalyzingDimensions with the
\* snapshot; an absent field is no failure; it comes with a warning exactly
\* when its sub-fetch threw, and with none when the host answered without
\* the data.
C15_AbsentFieldNoFailure ==
  [][\A r \in Reqs :
       State(r) = "FetchingContent" =>
         /\ FetchGoesOn(r)
         /\ State(r)' = "AnalyzingDimensions" =>
              \A f \in Fields :
                /\ snap'[r][f] = Absent <=>
                     (SubFetchThrew(tk'[r], f) \/ AnsweredWithout(tk'[r], f))
                /\ f \in tk'[r].warn <=> SubFetchThrew(tk'[r], f)]_vars

\* a run whose three sub-fetches all threw has returned a snapshot with every
\* field absent, and the analysis goes on
C15_Witness ==
  \E r \in Reqs :
    /\ RunReturned(r) /\ State(r) = "AnalyzingDimensions"
    /\ snap[r] = EmptyLocals /\ tk[r].warn = Fields
    /\ err[r] = NoErr

\* every host call of the run of request r found the host unavailable
HostDown(r) ==
  /\ tk[r].sub.readme = "unavailable"
  /\ tk[r].sub.packageJson = "unavailable"
  /\ tk[r].sub.repo = "unavailable"

\* C16: when the host is unavailable to all three sub-fetches the request
\* ends in Failed and no analysis is produced.
C16_HostDownIsFatal ==
  \A r \in Reqs :
    HostDown(r) => (State(r) = "Failed" /\ snap[r] = NoSnapshot)

\* calls to the generation service request r has issued
ServiceCalls(r) ==
  nAnalysis[r] + Cardinality({k \in Calls : gen[r][k] # NotIssued})

C17_WriteOncePerKey ==
  [][\A u \in DOMAIN cache :
       /\ cache[u] # NoSnapshot => cache'[u] = cache[u]
       /\ cache'[u] # cache[u] =>
            \A v \in DOMAIN cache \ {u} : cache'[v] = cache[v]]_vars

\* two requests have each got field f from the host, for the same repository
BothFetched(r, q, f) ==
  /\ tk[r].u # NoUrl /\ tk[q].u # NoUrl
  /\ urlMatch(tk[r].u) /\ urlMatch(tk[q].u)
  /\ OwnerRepo(tk[r].u) = OwnerRepo(tk[q].u)
  /\ tk[r].sub[f] = "with" /\ tk[q].sub[f] = "with"

\* C18 as stated: two requests that overlap never both get a field of the
\* same repository from the host.
C18_OneFetchPerField ==
  \A r \in Reqs : \A q \in Reqs \ {r} :
    \A f \in {"readme", "packageJson", "tree"} : ~BothFetched(r, q, f)

\* C18 amended: a run that starts when an entry for its URL string is stored
\* returns that entry, calls the host no more and leaves the cache alone; a
\* run that starts when there is none goes to the host, whether or not a
\* run of another request for the same URL is in flight.
C18_FetchUnlessStored ==
  [][\A r \in Reqs :
       RunStarts(r) =>
         LET u == tk'[r].u
         IN /\ cache' = cache
            /\ cache[u] # NoSnapshot =>
                 (State(r)' = "AnalyzingDimensions" /\ snap'[r] = cache[u])
            /\ (cache[u] = NoSnapshot /\ urlMatch(u)) =>
                 (State(r)' = "FetchingContent" /\ tk'[r].sub = NoSub)]_vars

\* two requests that overlap have each fetched the readme of the same URL
\* from the host
C18_Witness ==
  \E r \in Reqs : \E q \in Reqs \ {r} :
    /\ tk[r].u = tk[q].u /\ tk[r].u # NoUrl
    /\ tk[r].sub.readme = "with" /\ tk[q].sub.readme = "with"
    /\ State(r) = "FetchingContent" /\ State(q) = "FetchingContent"

\* C19: every request that has started ends in Assembled or Failed, whether
\* or not the host and the service answer its calls.
C19_EventuallyEnds ==
  \A r \in Reqs : (State(r) # "Idle") ~> (State(r) \in Terminal)

\* C22: when the six scores given to the score step all equal X, the
\* numericalScore it returns is X; all 60 gives 60, Intermediate, Silver.
C22_AllEqualGivesSame ==
  \A r \in Reqs :
    ScoreReturned(r) =>
      \A x \in 0..100 :
        analysis[r] = [d \in Dims |-> x] =>
          /\ gen[r].score.val.numericalScore = x
          /\ x = 60 => gen[r].score.val = Verdict(60, "Intermediate", "Silver")

\* a well-formed URL: a scheme, then a host
WellFormedUrl(u) == Len(u) >= 2 /\ u[1] \in {"https:", "http:"}

\* C23: an input that is no well-formed URL fails with 'Invalid input' and
\* the flow is never invoked for it; for a well-formed URL the flow is
\* invoked exactly once.
C23_InvalidInputNeverRuns ==
  \A r \in Reqs :
    url[r] # NoUrl =>
      IF WellFormedUrl(url[r])
        THEN nAnalysis[r] = 1 /\ err[r] # MsgInvalidInput
        ELSE /\ State(r) = "Failed" /\ err[r] = MsgInvalidInput
             /\ nAnalysis[r] = 0 /\ nTool[r] = 0 /\ gen[r] = NoGen
             /\ result[r] = NoResult

\* an input that is no URL has been refused
C23_Witness ==
  \E r \in Reqs :
    /\ url[r] = NotUrl /\ State(r) = "Failed"
    /\ err[r] = MsgInvalidInput /\ nAnalysis[r] = 0

\* the message of the failure that ended the flow of request r
UnderlyingMessage(r) ==
  IF rejected[r] # <<>> THEN rejected[r][1]
  ELSE IF analysisOut[r].kind = "throws" THEN analysisOut[r].msg
  ELSE IF analysisOut[r].kind = "null" THEN MsgNoOutput
  ELSE IF analysisOut[r].kind = "output" /\ gen[r] = NoGen THEN MsgSchema
  ELSE IF analysisOut[r].kind = "output" THEN MsgUnexpected
  ELSE MsgInvalidUrl

C25_CommitConsistencyDefault ==
  \A r \in Reqs :
    analysis[r] # NoScores => analysis[r].commitConsistency \in {50, 75}

\* C26: a run for a URL that is not in the cache and does not match the
\* pattern throws the invalid-format error, calls the host not once and
\* leaves the cache as it was.
C26_NoMatchNoFetch ==
  [][\A r \in Reqs :
       (RunStarts(r) /\ cache[tk'[r].u] = NoSnapshot /\ MatchPositions(tk'[r].u) = {}) =>
          /\ State(r)' = "Failed" /\ err'[r] = MsgInvalidUrl
          /\ tk'[r].sub = NoSub /\ tk'[r].warn = {}
          /\ cache' = cache]_vars

\* a run for a URL with an owner and no repository name has thrown
C26_Witness ==
  \E r \in Reqs :
    /\ RunThrew(r) /\ tk[r].u = UrlShort
    /\ err[r] = MsgInvalidUrl /\ cache[UrlShort] = NoSnapshot

\* C27: the repoUrl of a returned result is the input repoUrl of its request,
\* and its analysis is the scores the score, summary and roadmap steps got.
C27_ResultCarriesInput ==
  \A r \in Reqs :
    State(r) = "Assembled" =>
      /\ result[r].repoUrl = url[r]
      /\ result[r].analysis = analysis[r]
      /\ analysis[r] = analysisOut[r].val
      /\ result[r].score = gen[r].score.val
      /\ result[r].summary = gen[r].summary.val
      /\ result[r].roadmap = gen[r].roadmap.val

\* a result has been returned for a URL that goes on after owner and name
C27_Witness ==
  \E r \in Reqs :
    /\ State(r) = "Assembled" /\ url[r] = UrlA2
    /\ result[r].repoUrl = UrlA2 /\ result[r].analysis = ScoresAll60

RunComplete(t) ==
  /\ t.sub.readme # NoOutcome /\ t.sub.packageJson # NoOutcome
  /\ t.sub.repo # NoOutcome
  /\ t.sub.repo = "with" => t.sub.tree # NoOutcome

\* C29: the cache is written only by a run that has finished its three
\* sub-fetches, with the snapshot of that run, whose fields are the outcomes
\* of its sub-fetches; no entry is ever partly built.
C29_OnlyCompletedSnapshots ==
  [][\A u \in DOMAIN cache :
       /\ cache'[u] # NoSnapshot => \A f \in Fields : cache'[u][f] # "none"
       /\ cache'[u] # cache[u] =>
            \E r \in Reqs :
              /\ State(r) = "FetchingContent" /\ State(r)' = "AnalyzingDimensions"
              /\ tk'[r].u = u /\ RunComplete(tk'[r])
              /\ cache'[u] = tk'[r].loc /\ snap'[r] = cache'[u]
              /\ \A f \in Fields :
                   cache'[u][f] = Absent <=>
                     (SubFetchThrew(tk'[r], f) \/ AnsweredWithout(tk'[r], f))]_vars

\* a run is half-way, with its readme fetched, while another request is
\* answered from the cache for the same URL
C29_Witness ==
  \E r \in Reqs : \E q \in Reqs \ {r} :
    /\ pc[r] \in {"getContent", "reposGet"} /\ tk[r].loc.readme # Absent
    /\ tk[q].u = tk[r].u /\ tk[q].sub = NoSub /\ State(q) = "AnalyzingDimensions"
    /\ snap[q] = cache[tk[q].u] /\ snap[q] # NoSnapshot

\* C21: two score steps that have returned for the same scores have returned
\* the same numericalScore, skillLevel and badge, and a score step never
\* waits for an external answer.
C21_ScoreDeterministic ==
  /\ \A r \in Reqs : \A q \in Reqs :
       (ScoreReturned(r) /\ ScoreReturned(q) /\ analysis[r] = analysis[q]) =>
          gen[r].score.val = gen[q].score.val
  /\ \A r \in Reqs : gen[r].score # Pending

\* C30: the result the page shows is the one of the current url parameter.
C30_ShownResultIsCurrent ==
  Rendered.kind = "result" => Rendered.repoUrl = page.repoUrl

====
